---- MODULE Spec2Model ----
(***************************************************************************)
(* State-machine model of the GEGL PNG codec operations                    *)
(*   src/png/gegl/png-load.c  (gegl:png-load: query_png,                   *)
(*                             gegl_buffer_import_png)                     *)
(*   src/png/gegl/png-save.c  (gegl:png-save: process, export_png)         *)
(*                                                                         *)
(* One behaviour is one call: a header query, a full decode or an encode.  *)
(* The PNG parser (libpng) is external; its calls are modelled by what     *)
(* they hand back to the codec: header fields, chunk validity flags, rows, *)
(* and the fatal-error longjmp that lands in the codec's setjmp handler.   *)
(***************************************************************************)
EXTENDS Integers, Sequences, FiniteSets, TLC

----------------------------------------------------------------------------
(* Bounds of the model *)

\* largest image of the pixel-level (Adam7) decode inputs
MaxWidth == 5
MaxHeight == 5
\* largest region height of the encode inputs
MaxSaveHeight == 2

----------------------------------------------------------------------------
(* libpng / codec constants *)

hdr_size == 8

PNG_COLOR_MASK_PALETTE == 1
PNG_COLOR_MASK_COLOR == 2
PNG_COLOR_MASK_ALPHA == 4

PNG_COLOR_TYPE_GRAY == 0
PNG_COLOR_TYPE_PALETTE == PNG_COLOR_MASK_COLOR + PNG_COLOR_MASK_PALETTE
PNG_COLOR_TYPE_RGB == PNG_COLOR_MASK_COLOR
PNG_COLOR_TYPE_RGB_ALPHA == PNG_COLOR_MASK_COLOR + PNG_COLOR_MASK_ALPHA
PNG_COLOR_TYPE_GRAY_ALPHA == PNG_COLOR_MASK_ALPHA

PNG_INTERLACE_NONE == 0
PNG_INTERLACE_ADAM7 == 1

\* the 8 signature bytes png_sig_cmp compares against
PngSignature == <<137, 80, 78, 71, 13, 10, 26, 10>>

\* gamma values in libpng's fixed-point unit (1/100000)
GammaUnit == 100000
\* 0.45455, the source gamma of the fixed correction
DefaultFileGamma == 45455
\* 2.2, the display gamma of every png_set_gamma call and the gAMA written
Gamma22 == 220000
\* 1.0, the gAMA written for a linear transfer curve
Gamma10 == 100000

\* chromaticities in 1/10000: <<wx, wy, rx, ry, gx, gy, bx, by>>
SRGBChromaticities == <<3127, 3290, 6400, 3300, 3000, 6000, 1500, 600>>
\* a cHRM chunk / space with other primaries (Adobe RGB)
OtherChromaticities == <<3127, 3290, 6400, 3300, 2100, 7100, 1500, 600>>

----------------------------------------------------------------------------
(* Helpers *)

RECURSIVE BitAnd(_, _)
\* the C operator & on non-negative ints
BitAnd(a, b) ==
  IF a = 0 \/ b = 0 THEN 0
  ELSE (IF a % 2 = 1 /\ b % 2 = 1 THEN 1 ELSE 0) + 2 * BitAnd(a \div 2, b \div 2)

\* the C operator | on non-negative ints
BitOr(a, b) == a + b - BitAnd(a, b)

----------------------------------------------------------------------------
(* Colour spaces and pixel formats (babl objects) *)

NoTrc == [kind |-> "none", num |-> 0, den |-> 0]

\* babl_trc_gamma (num/den): a pure power curve with that exponent
babl_trc_gamma(num, den) == [kind |-> "gamma", num |-> num, den |-> den]

\* the NULL Babl pointer
NullSpace == [kind |-> "NULL", chrm |-> <<>>, trc |-> NoTrc]

\* what babl_space_from_icc returns: a space for a profile it can parse,
\* NULL (with *error set) for one it cannot
babl_space_from_icc(parses) ==
  IF parses THEN [kind |-> "icc", chrm |-> <<>>, trc |-> NoTrc]
  ELSE NullSpace

babl_space_from_chromaticities(chrm, trc) ==
  [kind |-> "chromaticities", chrm |-> chrm, trc |-> trc]

NullFormat == [model |-> "NULL", type |-> "", space |-> NullSpace]

babl_format_with_space(model, type, space) ==
  [model |-> model, type |-> type, space |-> space]

----------------------------------------------------------------------------
(* png-load.c: pure functions *)

\* check_valid_png_header without its short-read branch
check_valid_png_header_noshort(hdr_read_size, header) ==
  IF hdr_read_size = -1
    THEN [ok |-> FALSE, err |-> "IO"]
  ELSE IF header # PngSignature
    THEN [ok |-> FALSE, err |-> "LOAD_PNG_WRONG_HEADER"]
  ELSE [ok |-> TRUE, err |-> "none"]

\* check_valid_png_header: hdr_read_size is the result of the first
\* g_input_stream_read of 8 bytes (-1 on error), header the bytes it stored
check_valid_png_header(hdr_read_size, header) ==
  IF hdr_read_size = -1
    THEN [ok |-> FALSE, err |-> "IO"]
  ELSE IF hdr_read_size < hdr_size
    THEN [ok |-> FALSE, err |-> "LOAD_PNG_TOO_SHORT"]
  ELSE IF header # PngSignature
    THEN [ok |-> FALSE, err |-> "LOAD_PNG_WRONG_HEADER"]
  ELSE [ok |-> TRUE, err |-> "none"]

\* get_babl_format testing color_type == PNG_COLOR_TYPE_RGB in place of the
\* bit test, so that palette and RGB+alpha fall through to the gray branch
get_babl_format_eq(bit_depth, color_type, space) ==
  LET model ==
        IF color_type = PNG_COLOR_TYPE_RGB
          THEN "R'G'B'"
        ELSE IF BitAnd(color_type, PNG_COLOR_MASK_ALPHA) # 0
          THEN "Y'A"
        ELSE "Y'"
  IN IF bit_depth <= 8 THEN babl_format_with_space(model, "u8", space)
     ELSE IF bit_depth = 16 THEN babl_format_with_space(model, "u16", space)
     ELSE NullFormat

get_babl_format(bit_depth, color_type, space) ==
  LET model ==
        IF BitAnd(color_type, PNG_COLOR_TYPE_RGB) # 0
          THEN IF BitAnd(color_type, PNG_COLOR_MASK_ALPHA) # 0
                 THEN "R'G'B'A" ELSE "R'G'B'"
        ELSE IF BitAnd(color_type, PNG_COLOR_TYPE_GRAY) = PNG_COLOR_TYPE_GRAY
          THEN IF BitAnd(color_type, PNG_COLOR_MASK_ALPHA) # 0
                 THEN "Y'A" ELSE "Y'"
        ELSE IF BitAnd(color_type, PNG_COLOR_TYPE_PALETTE) # 0
          THEN IF BitAnd(color_type, PNG_COLOR_MASK_ALPHA) # 0
                 THEN "R'G'B'A" ELSE "R'G'B'"
        ELSE "NULL"
  IN IF model = "NULL" THEN NullFormat
     ELSE IF bit_depth <= 8 THEN babl_format_with_space(model, "u8", space)
     ELSE IF bit_depth = 16 THEN babl_format_with_space(model, "u16", space)
     ELSE NullFormat

\* gegl_png_space: info is the parsed header (chunk validity flags and values)
gegl_png_space(info) ==
  IF info.iCCP
    THEN babl_space_from_icc(info.icc_parses)
  ELSE IF info.sRGB
    THEN NullSpace
  ELSE IF info.gAMA
    THEN babl_space_from_chromaticities(
           IF info.cHRM THEN info.chrm ELSE SRGBChromaticities,
           babl_trc_gamma(GammaUnit, info.gamma))
  ELSE NullSpace

\* the switch (color_type) of gegl_buffer_import_png; 0 is the default branch
import_bpp(color_type) ==
  IF color_type = PNG_COLOR_TYPE_GRAY THEN 1
  ELSE IF color_type = PNG_COLOR_TYPE_GRAY_ALPHA THEN 2
  ELSE IF color_type = PNG_COLOR_TYPE_RGB THEN 3
  ELSE IF color_type = PNG_COLOR_TYPE_RGB_ALPHA THEN 4
  ELSE IF color_type = BitOr(PNG_COLOR_TYPE_PALETTE, PNG_COLOR_MASK_ALPHA) THEN 4
  ELSE IF color_type = PNG_COLOR_TYPE_PALETTE THEN 3
  ELSE 0

\* the png_set_gamma call of gegl_buffer_import_png
NoGamma == [set |-> FALSE, screen |-> 0, file |-> 0]

\* import_gamma without the if (!space) around it
import_gamma_always(space, info) ==
  IF info.gAMA
    THEN [set |-> TRUE, screen |-> Gamma22, file |-> info.gamma]
    ELSE [set |-> TRUE, screen |-> Gamma22, file |-> DefaultFileGamma]

import_gamma(space, info) ==
  IF space = NullSpace
    THEN IF info.gAMA
           THEN [set |-> TRUE, screen |-> Gamma22, file |-> info.gamma]
           ELSE [set |-> TRUE, screen |-> Gamma22, file |-> DefaultFileGamma]
  ELSE NoGamma

\* import_passes that never asks png_set_interlace_handling
import_passes_single(interlace_type) == 1

\* number_of_passes: png_set_interlace_handling returns 7 for Adam7
import_passes(interlace_type) ==
  IF interlace_type = PNG_INTERLACE_ADAM7 THEN 7 ELSE 1

----------------------------------------------------------------------------
(* libpng row reading *)

\* the Adam7 pass (0..6) that carries pixel (x, y)
Adam7Pass(x, y) ==
  IF y % 2 = 1 THEN 6
  ELSE IF x % 2 = 1 THEN 5
  ELSE IF y % 4 = 2 THEN 4
  ELSE IF x % 4 = 2 THEN 3
  ELSE IF y % 8 = 4 THEN 2
  ELSE IF x % 8 = 4 THEN 1
  ELSE 0

\* the sample the stream encodes at (x, y); pixels are numbered from 1
\* (TLA+ sequences), so column x is pixel x + 1
ImagePixel(f, x, y) == f.seed + 1 + x + f.w * y

\* what a read that failed leaves in the buffer libpng decodes from
Garbage == -1

\* png_read_rows (png, &pixels, NULL, 1) for row y of pass p: without
\* interlace handling the whole row is stored; with it only the pixels of
\* pass p are combined into the row and the others are left as they were
png_read_rows(f, interlaced, p, y, row, io_ok) ==
  [k \in 1..f.w |->
     IF (~interlaced) \/ Adam7Pass(k - 1, y) = p
       THEN (IF io_ok THEN ImagePixel(f, k - 1, y) ELSE Garbage)
       ELSE row[k]]

\* import_row_source without the gegl_buffer_get
import_row_source_stale(p, pixels_row, buffer_row) == pixels_row

\* the row handed to png_read_rows: re-read from the buffer on passes > 0
import_row_source(p, pixels_row, buffer_row) ==
  IF p # 0 THEN buffer_row ELSE pixels_row

----------------------------------------------------------------------------
(* Inputs of a load call: the stream as the first read and libpng see it *)

\* what the first g_input_stream_read of 8 bytes can hand back
HeaderReads ==
  {[res |-> -1, bytes |-> <<>>]}
  \cup {[res |-> n, bytes |-> SubSeq(PngSignature, 1, n)] : n \in {0, 3, 7}}
  \cup {[res |-> 8, bytes |-> <<255, 216, 255, 224, 0, 16, 74, 70>>],
        [res |-> 8, bytes |-> <<137, 80, 78, 71, 13, 10, 26, 11>>],
        [res |-> 8, bytes |-> PngSignature]}

\* the (colour type, bit depth, tRNS valid) triples libpng accepts
HeaderFormats ==
  {<<PNG_COLOR_TYPE_GRAY, d, t>> : d \in {4, 8, 16}, t \in BOOLEAN}
  \cup {<<PNG_COLOR_TYPE_RGB, d, t>> : d \in {8, 16}, t \in BOOLEAN}
  \cup {<<PNG_COLOR_TYPE_PALETTE, d, t>> : d \in {4, 8}, t \in BOOLEAN}
  \cup {<<PNG_COLOR_TYPE_GRAY_ALPHA, d, FALSE>> : d \in {8, 16}}
  \cup {<<PNG_COLOR_TYPE_RGB_ALPHA, d, FALSE>> : d \in {8, 16}}

\* the colour chunks of a stream:
\* <<iCCP, profile parses, sRGB, gAMA, gamma, cHRM>>
ColourChunks ==
  {<<ic[1], ic[2], s, g[1], g[2], c>> :
     ic \in {<<FALSE, FALSE>>, <<TRUE, TRUE>>, <<TRUE, FALSE>>},
     s \in BOOLEAN,
     g \in {<<FALSE, 0>>, <<TRUE, DefaultFileGamma>>, <<TRUE, 50000>>},
     c \in BOOLEAN}

MakeFile(hr, fmt, cc, il, w, h, seed) ==
  [stream |-> TRUE, hdr_res |-> hr.res, hdr_bytes |-> hr.bytes,
   w |-> w, h |-> h, seed |-> seed,
   color_type |-> fmt[1], bit_depth |-> fmt[2], tRNS |-> fmt[3],
   interlace_type |-> il,
   iCCP |-> cc[1], icc_parses |-> cc[2], sRGB |-> cc[3],
   gAMA |-> cc[4], gamma |-> cc[5],
   cHRM |-> cc[6], chrm |-> IF cc[6] THEN OtherChromaticities ELSE <<>>]

GoodHeader == [res |-> 8, bytes |-> PngSignature]
PlainFormat == <<PNG_COLOR_TYPE_GRAY, 8, FALSE>>
PlainColour == <<FALSE, FALSE, FALSE, FALSE, 0, FALSE>>

\* every header shape, on a 2 x 2 image
HeaderFiles ==
  {MakeFile(GoodHeader, fmt, cc, il, 2, 2, 0) :
     fmt \in HeaderFormats, cc \in ColourChunks,
     il \in {PNG_INTERLACE_NONE, PNG_INTERLACE_ADAM7}}

\* images large enough for all seven Adam7 passes, on a few header shapes
PixelFiles ==
  {MakeFile(GoodHeader, fmt, PlainColour, il, d[1], d[2], seed) :
     fmt \in {PlainFormat, <<PNG_COLOR_TYPE_RGB_ALPHA, 16, FALSE>>},
     il \in {PNG_INTERLACE_NONE, PNG_INTERLACE_ADAM7},
     d \in {<<1, 1>>, <<MaxWidth, MaxHeight>>},
     seed \in {0, 7}}

\* streams whose first read is short, failed or not a PNG signature, and the
\* NULL stream g_return_val_if_fail rejects
BadFiles ==
  {MakeFile(hr, PlainFormat, PlainColour, PNG_INTERLACE_NONE, 1, 1, 0) :
     hr \in HeaderReads}
  \cup {[MakeFile(GoodHeader, PlainFormat, PlainColour,
                  PNG_INTERLACE_NONE, 1, 1, 0) EXCEPT !.stream = FALSE]}

Files == HeaderFiles \cup PixelFiles \cup BadFiles

NoFile ==
  [MakeFile(GoodHeader, PlainFormat, PlainColour, PNG_INTERLACE_NONE, 1, 1, 0)
     EXCEPT !.stream = FALSE, !.w = 0, !.h = 0]

----------------------------------------------------------------------------
(* Inputs of a save call: the input buffer's format and space, the region *)

NoSaveSpace ==
  [kind |-> "NULL", is_cmyk |-> FALSE, trc |-> "sRGB",
   chrm |-> SRGBChromaticities, icc |-> FALSE, name |-> ""]

\* the spaces babl_format_get_space can hand back: NULL, babl_space ("sRGB"),
\* or another space (trc is the kind of its first transfer curve)
SaveSpaces ==
  {NoSaveSpace,
   [NoSaveSpace EXCEPT !.kind = "sRGB", !.name = "sRGB", !.icc = TRUE]}
  \cup {[kind |-> "other", is_cmyk |-> c, trc |-> t,
         chrm |-> OtherChromaticities, icc |-> p, name |-> n] :
          c \in BOOLEAN, t \in {"sRGB", "2.2", "linear", "1.8"},
          p \in BOOLEAN, n \in {"Adobish", "ProPhoto RGB"}}

\* <<babl_format_has_alpha, babl_format_get_n_components>> of the buffer
\* format: Y, YA, RGB, RGBA, and the CMYK and CMYKA models
SaveLayouts ==
  {<<FALSE, 1>>, <<TRUE, 2>>, <<FALSE, 3>>, <<TRUE, 4>>,
   <<FALSE, 4>>, <<TRUE, 5>>}

\* o->bitdepth, a property with value_range (8, 16)
SaveBitDepths == {8, 12, 16}

Jobs ==
  {[has_alpha |-> l[1], n_components |-> l[2], bitdepth |-> d,
    compression |-> 3, space |-> sp,
    x |-> 0, y |-> y, width |-> 2, height |-> h] :
     l \in SaveLayouts, d \in SaveBitDepths, sp \in SaveSpaces,
     y \in {0, 1}, h \in 1..MaxSaveHeight}

NoJob ==
  [has_alpha |-> FALSE, n_components |-> 1, bitdepth |-> 8, compression |-> 3,
   space |-> NoSaveSpace, x |-> 0, y |-> 0, width |-> 0, height |-> 0]

----------------------------------------------------------------------------
(* State *)

VARIABLES
  op,            \* the call: "query", "import" or "save"
  file,          \* the input stream of a load call
  job,           \* the arguments of a save call
  pc,            \* position in the call
  ret,           \* "none" until the call returns, then "ok" or "fail"
  err,           \* the GError set by check_valid_png_header
  png_ptr,       \* the libpng read/write struct: "null", "live", "destroyed"
  info_ptr,      \* the libpng info struct, likewise
  pixels_mem,    \* the row buffer allocation: "none", "live", "freed"
  pixels,        \* the row buffer's pixels
  hdr_reads,     \* g_input_stream_read calls made by the header check
  cb_calls,      \* read_fn / write_fn calls made by libpng
  stream_ok,     \* the stream has not failed yet
  io_failed,     \* some stream call made by read_fn / write_fn has failed
  dec,           \* the decoder's locals after png_read_info
  pass,          \* the interlace pass of the row loop
  i,             \* the row of the row loop
  buffer,        \* the destination GeglBuffer, row y at buffer[y]
  enc,           \* what export_png has set on the writer
  out            \* the log of the calls made on the GeglBuffer and the writer

vars ==
  <<op, file, job, pc, ret, err, png_ptr, info_ptr, pixels_mem, pixels,
    hdr_reads, cb_calls, stream_ok, io_failed, dec, pass, i, buffer, enc, out>>

NoDec ==
  [width |-> 0, height |-> 0, bit_depth |-> 0, color_type |-> 0, bpp |-> 0,
   number_of_passes |-> 1, space |-> NullSpace, format |-> NullFormat,
   gamma |-> NoGamma, transforms |-> {}, ret_width |-> 0, ret_height |-> 0]

NoWhite == [red |-> FALSE, green |-> FALSE, blue |-> FALSE, gray |-> FALSE]

NoEnc ==
  [set |-> FALSE, width |-> 0, height |-> 0, bit_depth |-> 0,
   color_type |-> 0, interlace |-> 0, compression |-> 0,
   sRGB |-> FALSE, cHRM |-> <<>>, gAMA |-> 0, iCCP |-> FALSE,
   iccp_name |-> "", white |-> NoWhite, bKGD |-> <<>>,
   format |-> NullFormat, swap |-> FALSE]

Init ==
  /\ \/ /\ op \in {"query", "import"}
        /\ file \in Files
        /\ job = NoJob
     \/ /\ op = "save"
        /\ file = NoFile
        /\ job \in Jobs
  /\ pc = "start"
  /\ ret = "none"
  /\ err = "none"
  /\ png_ptr = "null"
  /\ info_ptr = "null"
  /\ pixels_mem = "none"
  /\ pixels = <<>>
  /\ hdr_reads = 0
  /\ cb_calls = FALSE
  /\ stream_ok = TRUE
  /\ io_failed = FALSE
  /\ dec = NoDec
  /\ pass = 0
  /\ i = 0
  /\ buffer = [y \in 0..(file.h - 1) |-> [k \in 1..file.w |-> 0]]
  /\ enc = NoEnc
  /\ out = <<>>

\* an entry of the call log: the call and the origin of its rectangle
Event(ev, x, y) == [ev |-> ev, x |-> x, y |-> y]

----------------------------------------------------------------------------
(* Stream callbacks *)

\* the outcomes a stream call can have: once the stream has failed (closed,
\* aborted, at end of file) every later call on it fails too
IoOutcomes == IF stream_ok THEN BOOLEAN ELSE {FALSE}

\* read_fn: g_input_stream_read_all, and a g_printerr when it set an error;
\* nothing is reported to libpng, which goes on with the buffer as it is.
\* Gives the new <<cb_calls, stream_ok, io_failed>>.
read_fn(io_ok) == <<TRUE, stream_ok /\ io_ok, io_failed \/ ~io_ok>>

\* write_fn / flush_fn: g_output_stream_write_all / g_output_stream_flush,
\* and a g_printerr when it set an error; nothing is reported to libpng.
write_fn(io_ok) == <<TRUE, stream_ok /\ io_ok, io_failed \/ ~io_ok>>

Callback(res) ==
  /\ cb_calls' = res[1]
  /\ stream_ok' = res[2]
  /\ io_failed' = res[3]

----------------------------------------------------------------------------
(* png-load.c: query_png and gegl_buffer_import_png *)

Loading == op \in {"query", "import"}

\* g_return_val_if_fail (stream, -1) and check_valid_png_header
load_check_header ==
  /\ Loading
  /\ pc = "start"
  /\ IF ~file.stream
       THEN /\ ret' = "fail"
            /\ pc' = "done"
            /\ UNCHANGED <<err, hdr_reads, stream_ok>>
       ELSE LET r == check_valid_png_header(file.hdr_res, file.hdr_bytes)
            IN /\ hdr_reads' = hdr_reads + 1
               /\ stream_ok' = (file.hdr_res # -1)
               /\ err' = r.err
               /\ ret' = IF r.ok THEN "none" ELSE "fail"
               /\ pc' = IF r.ok THEN "create" ELSE "done"
  /\ UNCHANGED <<op, file, job, png_ptr, info_ptr, pixels_mem, pixels,
                 cb_calls, io_failed, dec, pass, i, buffer, enc, out>>

\* png_create_read_struct and png_create_info_struct, either of which can
\* return NULL, then the options and the setjmp
load_create_structs ==
  /\ Loading
  /\ pc = "create"
  /\ \E made \in {"both", "no_png", "no_info"} :
       /\ png_ptr' = CASE made = "both" -> "live"
                       [] made = "no_png" -> "null"
                       [] made = "no_info" -> "destroyed"
       /\ info_ptr' = IF made = "both" THEN "live" ELSE "null"
       /\ ret' = IF made = "both" THEN "none" ELSE "fail"
       /\ pc' = IF made = "both" THEN "info" ELSE "done"
  /\ UNCHANGED <<op, file, job, err, pixels_mem, pixels, hdr_reads, cb_calls,
                 stream_ok, io_failed, dec, pass, i, buffer, enc, out>>

\* the setjmp branch of both load functions, entered by libpng's longjmp:
\* png_destroy_read_struct, g_free (row_p) with row_p still NULL, return -1
load_longjmp ==
  /\ png_ptr' = "destroyed"
  /\ info_ptr' = "destroyed"
  /\ pixels_mem' = pixels_mem
  /\ ret' = "fail"
  /\ pc' = "done"

\* the decoder's locals from png_read_info to png_read_update_info
import_header(f) ==
  LET gray_low == f.color_type = PNG_COLOR_TYPE_GRAY /\ f.bit_depth < 8
      bit_depth == IF gray_low THEN 8 ELSE f.bit_depth
      color_type == IF f.tRNS THEN BitOr(f.color_type, PNG_COLOR_MASK_ALPHA)
                    ELSE f.color_type
      bpp0 == import_bpp(color_type)
      space == gegl_png_space(f)
      adam7 == f.interlace_type = PNG_INTERLACE_ADAM7
  IN [width |-> f.w, height |-> f.h, ret_width |-> f.w, ret_height |-> f.h,
      bit_depth |-> bit_depth, color_type |-> color_type,
      bpp |-> IF bit_depth = 16 THEN bpp0 * 2 ELSE bpp0,
      space |-> space,
      format |-> get_babl_format(bit_depth, color_type, space),
      number_of_passes |-> import_passes(f.interlace_type),
      gamma |-> import_gamma(space, f),
      transforms |->
        (IF gray_low THEN {"expand"} ELSE {})
        \cup (IF f.tRNS THEN {"tRNS_to_alpha"} ELSE {})
        \cup (IF color_type = PNG_COLOR_TYPE_PALETTE
                THEN {"palette_to_rgb"} ELSE {})
        \cup (IF bit_depth = 16 THEN {"swap"} ELSE {})
        \cup (IF adam7 THEN {"interlace"} ELSE {})]

\* gegl_rectangle_set (&rect, 0, i, width, 1) of the row loop
import_rect(row, width) == [x |-> 0, y |-> row, width |-> width, height |-> 1]

\* gegl_buffer_import_png from png_set_read_fn to g_malloc0 (width*bpp)
import_read_info ==
  /\ op = "import"
  /\ pc = "info"
  /\ \E io_ok \in IoOutcomes, fatal \in BOOLEAN :
       /\ Callback(read_fn(io_ok))
       /\ IF fatal
            THEN /\ load_longjmp
                 /\ UNCHANGED <<dec, pixels, out>>
            ELSE LET d == import_header(file)
                 IN IF import_bpp(d.color_type) = 0
                      THEN \* default: "color type mismatch"
                           /\ dec' = [NoDec EXCEPT !.ret_width = file.w,
                                                   !.ret_height = file.h]
                           /\ png_ptr' = "destroyed"
                           /\ info_ptr' = "destroyed"
                           /\ ret' = "fail"
                           /\ pc' = "done"
                           /\ UNCHANGED <<pixels_mem, pixels, out>>
                      ELSE /\ dec' = d
                           /\ pixels_mem' = "live"
                           /\ pixels' = [k \in 1..d.width |-> 0]
                           /\ out' = <<Event("g_malloc0", 0, 0)>>
                           /\ pc' = "rows"
                           /\ UNCHANGED <<png_ptr, info_ptr, ret>>
  /\ UNCHANGED <<op, file, job, err, hdr_reads, pass, i, buffer, enc>>

\* one iteration of the row loop: gegl_buffer_get on passes after the first,
\* png_read_rows, gegl_buffer_set
import_read_row ==
  /\ op = "import"
  /\ pc = "rows"
  /\ \E io_ok \in IoOutcomes, fatal \in BOOLEAN :
       /\ Callback(read_fn(io_ok))
       /\ LET rect == import_rect(i, dec.width)
              rect_y == rect.y
              row == import_row_source(pass, pixels, buffer[rect_y])
              last_row == i + 1 = dec.height
              last == last_row /\ pass + 1 = dec.number_of_passes
          IN IF fatal
               THEN /\ load_longjmp
                    /\ pixels' = row
                    /\ UNCHANGED <<buffer, pass, i, out>>
               ELSE LET got == png_read_rows(file, "interlace" \in dec.transforms,
                                             pass, rect_y, row, io_ok)
                    IN /\ pixels' = got
                       /\ buffer' = [buffer EXCEPT ![rect_y] = got]
                       /\ out' = Append(out, Event("gegl_buffer_set",
                                                   rect.x, rect.y))
                       /\ i' = IF last_row THEN 0 ELSE i + 1
                       /\ pass' = IF last_row THEN pass + 1 ELSE pass
                       /\ pc' = IF last THEN "end" ELSE "rows"
                       /\ UNCHANGED <<png_ptr, info_ptr, pixels_mem, ret>>
  /\ UNCHANGED <<op, file, job, err, hdr_reads, dec, enc>>

\* png_read_end, png_destroy_read_struct, g_free (pixels), return 0
import_read_end ==
  /\ op = "import"
  /\ pc = "end"
  /\ \E io_ok \in IoOutcomes, fatal \in BOOLEAN :
       /\ Callback(read_fn(io_ok))
       /\ IF fatal
            THEN load_longjmp
            ELSE /\ png_ptr' = "destroyed"
                 /\ info_ptr' = "destroyed"
                 /\ pixels_mem' = "freed"
                 /\ ret' = "ok"
                 /\ pc' = "done"
  /\ UNCHANGED <<op, file, job, err, pixels, hdr_reads, dec, pass, i, buffer,
                 enc, out>>

\* the locals of query_png after png_read_info
query_header(f) ==
  LET color_type == IF f.tRNS THEN BitOr(f.color_type, PNG_COLOR_MASK_ALPHA)
                    ELSE f.color_type
      space == gegl_png_space(f)
  IN [NoDec EXCEPT !.ret_width = f.w, !.ret_height = f.h,
                   !.bit_depth = f.bit_depth, !.color_type = color_type,
                   !.space = space,
                   !.format = get_babl_format(f.bit_depth, color_type, space)]

\* query_png from png_set_read_fn to its return
query_read_info ==
  /\ op = "query"
  /\ pc = "info"
  /\ \E io_ok \in IoOutcomes, fatal \in BOOLEAN :
       /\ Callback(read_fn(io_ok))
       /\ IF fatal
            THEN /\ load_longjmp
                 /\ UNCHANGED dec
            ELSE LET d == query_header(file)
                 IN /\ dec' = d
                    /\ png_ptr' = "destroyed"
                    /\ info_ptr' = "destroyed"
                    /\ ret' = IF d.format = NullFormat THEN "fail" ELSE "ok"
                    /\ pc' = "done"
                    /\ UNCHANGED pixels_mem
  /\ UNCHANGED <<op, file, job, err, pixels, hdr_reads, pass, i, buffer,
                 enc, out>>

----------------------------------------------------------------------------
(* png-save.c: pure parts of export_png *)

\* export_bit_depth without the clamp
export_bit_depth_asis(bit_depth) == bit_depth

\* the requested bit depth, clamped
export_bit_depth(bit_depth) == IF bit_depth # 16 THEN 8 ELSE 16

\* the PNG colour type and babl model picked from the buffer's format
export_color_type(has_alpha, n_components) ==
  IF has_alpha
    THEN IF n_components # 2
           THEN [png_color_type |-> PNG_COLOR_TYPE_RGB_ALPHA, model |-> "R'G'B'A"]
           ELSE [png_color_type |-> PNG_COLOR_TYPE_GRAY_ALPHA, model |-> "Y'A"]
    ELSE IF n_components # 1
           THEN [png_color_type |-> PNG_COLOR_TYPE_RGB, model |-> "R'G'B'"]
           ELSE [png_color_type |-> PNG_COLOR_TYPE_GRAY, model |-> "Y'"]

\* the colour branch is taken for RGB and RGB+alpha output only
export_is_rgb(png_color_type) ==
  png_color_type = PNG_COLOR_TYPE_RGB \/ png_color_type = PNG_COLOR_TYPE_RGB_ALPHA

\* space == NULL || space == babl_space ("sRGB")
export_is_srgb(space) == space.kind = "NULL" \/ space.kind = "sRGB"

\* the value handed to png_set_gAMA
export_gAMA(trc0, is_cmyk) ==
  IF trc0 = "sRGB" \/ trc0 = "2.2" \/ is_cmyk THEN Gamma22
  ELSE IF trc0 = "linear" THEN Gamma10
  ELSE Gamma22

\* export_iCCP without the is_cmyk test
export_iCCP_anyspace(space) == space.icc

\* whether png_set_iCCP is called
export_iCCP(space) == (~space.is_cmyk) /\ space.icc

\* the profile name handed to png_set_iCCP
export_iccp_name(name) == IF Len(name) > 10 THEN "GEGL" ELSE name

\* the fields of the local png_color_16 white that have been assigned
export_white(png_color_type, space) ==
  IF export_is_rgb(png_color_type)
    THEN IF export_is_srgb(space)
           THEN [NoWhite EXCEPT !.red = TRUE, !.blue = TRUE, !.green = TRUE]
           ELSE NoWhite
    ELSE [NoWhite EXCEPT !.gray = TRUE]

\* babl_format_get_bytes_per_pixel
babl_format_get_bytes_per_pixel(format) ==
  (CASE format.model = "Y'" -> 1
     [] format.model = "Y'A" -> 2
     [] format.model = "R'G'B'" -> 3
     [] format.model = "R'G'B'A" -> 4
     [] OTHER -> 0)
  * (IF format.type = "u16" THEN 2 ELSE 1)

\* values an uninitialised field of white can hold when png_set_bKGD reads it
IndeterminateSamples == {0, 255, 4660}

\* everything export_png sets on the writer before png_write_info; v is the
\* content of the fields of white that were never assigned
export_settings(j, v) ==
  LET bit_depth == export_bit_depth(j.bitdepth)
      ct == export_color_type(j.has_alpha, j.n_components)
      rgb == export_is_rgb(ct.png_color_type)
      srgb == export_is_srgb(j.space)
      other == rgb /\ ~srgb
      white == export_white(ct.png_color_type, j.space)
      val(assigned) == IF assigned THEN 255 ELSE v
  IN [set |-> TRUE, width |-> j.width, height |-> j.height,
      bit_depth |-> bit_depth, color_type |-> ct.png_color_type,
      interlace |-> PNG_INTERLACE_NONE, compression |-> j.compression,
      sRGB |-> rgb /\ srgb,
      cHRM |-> IF ~rgb THEN <<>>
               ELSE IF srgb THEN SRGBChromaticities ELSE j.space.chrm,
      gAMA |-> IF ~rgb THEN 0
               ELSE IF srgb THEN DefaultFileGamma
               ELSE export_gAMA(j.space.trc, j.space.is_cmyk),
      iCCP |-> other /\ export_iCCP(j.space),
      iccp_name |-> IF other /\ export_iCCP(j.space)
                      THEN export_iccp_name(j.space.name) ELSE "",
      white |-> white,
      bKGD |-> IF rgb THEN <<val(white.red), val(white.green), val(white.blue)>>
               ELSE <<val(white.gray)>>,
      format |-> babl_format_with_space(
                   ct.model, IF bit_depth = 16 THEN "u16" ELSE "u8", j.space),
      swap |-> bit_depth > 8]

\* does png_set_bKGD read a field of white that was never assigned
export_reads_unassigned(j) ==
  LET ct == export_color_type(j.has_alpha, j.n_components)
      white == export_white(ct.png_color_type, j.space)
  IN IF export_is_rgb(ct.png_color_type)
       THEN ~(white.red /\ white.green /\ white.blue)
       ELSE ~white.gray

----------------------------------------------------------------------------
(* png-save.c: process and export_png *)

\* the cleanup label of process: png_destroy_write_struct on what exists
process_cleanup ==
  /\ png_ptr' = "destroyed"
  /\ info_ptr' = "destroyed"
  /\ pc' = "done"

\* process: png_create_write_struct and png_create_info_struct
save_create_structs ==
  /\ op = "save"
  /\ pc = "start"
  /\ \E made \in {"both", "no_png", "no_info"} :
       /\ png_ptr' = CASE made = "both" -> "live"
                       [] made = "no_png" -> "null"
                       [] made = "no_info" -> "destroyed"
       /\ info_ptr' = IF made = "both" THEN "live" ELSE "null"
       /\ ret' = IF made = "both" THEN "none" ELSE "fail"
       /\ pc' = IF made = "both" THEN "open" ELSE "done"
  /\ UNCHANGED <<op, file, job, err, pixels_mem, pixels, hdr_reads, cb_calls,
                 stream_ok, io_failed, dec, pass, i, buffer, enc, out>>

\* process: gegl_gio_open_output_stream and png_set_write_fn
save_open_stream ==
  /\ op = "save"
  /\ pc = "open"
  /\ \E opened \in BOOLEAN :
       IF opened
         THEN /\ pc' = "export"
              /\ UNCHANGED <<png_ptr, info_ptr, ret>>
         ELSE /\ process_cleanup
              /\ ret' = "fail"
  /\ UNCHANGED <<op, file, job, err, pixels_mem, pixels, hdr_reads, cb_calls,
                 stream_ok, io_failed, dec, pass, i, buffer, enc, out>>

\* export_png up to g_malloc0: colour type, setjmp, png_set_IHDR, the colour
\* chunks, png_set_bKGD, png_write_info, png_set_swap, the row buffer.
\* A longjmp makes export_png return -1 and process go to cleanup.
export_write_info ==
  /\ op = "save"
  /\ pc = "export"
  /\ \E io_ok \in IoOutcomes, fatal \in BOOLEAN,
        v \in (IF export_reads_unassigned(job)
                 THEN IndeterminateSamples ELSE {0}) :
       LET e == export_settings(job, v)
       IN /\ Callback(write_fn(io_ok))
          /\ enc' = e
          /\ IF fatal
               THEN /\ process_cleanup
                    /\ ret' = "fail"
                    /\ UNCHANGED <<pixels_mem, pixels, out>>
               ELSE /\ pixels_mem' = "live"
                    /\ pixels' = <<>>
                    /\ out' = <<Event("png_write_info", 0, 0)>>
                    /\ pc' = "write_rows"
                    /\ UNCHANGED <<png_ptr, info_ptr, ret>>
  /\ i' = 0
  /\ UNCHANGED <<op, file, job, err, hdr_reads, dec, pass, buffer>>

\* the rectangle of row i of the region, fetched at (src_x, src_y + i)
\* with rect.y taken as i, without src_y
export_rect_unshifted(src_x, src_y, row, width) ==
  [x |-> src_x, y |-> row, width |-> width, height |-> 1]

\* the rectangle of row i of the region, fetched at (src_x, src_y + i)
export_rect(src_x, src_y, row, width) ==
  [x |-> src_x, y |-> src_y + row, width |-> width, height |-> 1]

\* one iteration of the row loop: gegl_buffer_get of row src_y + i, then
\* png_write_rows
export_write_row ==
  /\ op = "save"
  /\ pc = "write_rows"
  /\ \E io_ok \in IoOutcomes, fatal \in BOOLEAN :
       LET rect == export_rect(job.x, job.y, i, enc.width)
           rect_y == rect.y
           got == Append(out, Event("gegl_buffer_get", rect.x, rect.y))
       IN /\ Callback(write_fn(io_ok))
          /\ pixels' = <<rect_y>>
          /\ IF fatal
               THEN /\ process_cleanup
                    /\ ret' = "fail"
                    /\ out' = got
                    /\ UNCHANGED i
               ELSE /\ out' = Append(got, Event("png_write_rows",
                                                rect.x, rect.y))
                    /\ i' = i + 1
                    /\ pc' = IF i + 1 < enc.height THEN "write_rows"
                             ELSE "write_end"
                    /\ UNCHANGED <<png_ptr, info_ptr, ret>>
  /\ UNCHANGED <<op, file, job, err, pixels_mem, hdr_reads, dec, pass,
                 buffer, enc>>

\* png_write_end, g_free (pixels), return 0, then the cleanup of process
export_write_end ==
  /\ op = "save"
  /\ pc = "write_end"
  /\ \E io_ok \in IoOutcomes, fatal \in BOOLEAN :
       /\ Callback(write_fn(io_ok))
       /\ process_cleanup
       /\ IF fatal
            THEN /\ ret' = "fail"
                 /\ UNCHANGED <<pixels_mem, out>>
            ELSE /\ pixels_mem' = "freed"
                 /\ out' = Append(out, Event("png_write_end", 0, 0))
                 /\ ret' = "ok"
  /\ UNCHANGED <<op, file, job, err, pixels, hdr_reads, dec, pass, i,
                 buffer, enc>>

----------------------------------------------------------------------------
(* Specification *)

Next ==
  \/ load_check_header
  \/ load_create_structs
  \/ import_read_info
  \/ import_read_row
  \/ import_read_end
  \/ query_read_info
  \/ save_create_structs
  \/ save_open_stream
  \/ export_write_info
  \/ export_write_row
  \/ export_write_end

Spec == Init /\ [][Next]_vars

----------------------------------------------------------------------------
(* Properties *)

\* png_read_info has returned and the header has been taken over
HeaderParsed == Loading /\ dec.ret_width > 0

\* the first read handed back fewer than 8 bytes, or 8 that are no signature
ShortRead == file.hdr_res >= 0 /\ file.hdr_res < 8
WrongSignature == file.hdr_res = 8 /\ file.hdr_bytes # PngSignature

\* C1: in query_png and gegl_buffer_import_png alike, once the first read
\* has handed back fewer than 8 bytes, or 8 bytes that are not the PNG
\* signature, the call has failed with LOAD_PNG_TOO_SHORT resp.
\* LOAD_PNG_WRONG_HEADER, neither libpng struct was ever created, and the
\* stream is not read again.
C1_InvalidHeader ==
  (Loading /\ hdr_reads > 0 /\ (ShortRead \/ WrongSignature))
    => /\ pc = "done"
       /\ ret = "fail"
       /\ err = (IF ShortRead THEN "LOAD_PNG_TOO_SHORT"
                 ELSE "LOAD_PNG_WRONG_HEADER")
       /\ png_ptr = "null"
       /\ info_ptr = "null"
       /\ hdr_reads = 1
       /\ cb_calls = FALSE

C1_Witness ==
  /\ op = "import"
  /\ pc = "done"
  /\ file.hdr_res = 7
  /\ err = "LOAD_PNG_TOO_SHORT"

\* C2: when a decode or encode call has returned, on whatever path, the row
\* buffer and both libpng structs are no longer allocated.
C2_AllReleased ==
  pc = "done"
    => /\ pixels_mem # "live"
       /\ png_ptr # "live"
       /\ info_ptr # "live"

\* the space the precedence rule of the resolver prescribes for a header
ResolvedSpace(f) ==
  IF f.iCCP /\ f.icc_parses
    THEN [kind |-> "icc", chrm |-> <<>>, trc |-> NoTrc]
  ELSE IF f.sRGB
    THEN NullSpace
  ELSE IF f.gAMA
    THEN [kind |-> "chromaticities",
          chrm |-> IF f.cHRM THEN f.chrm ELSE SRGBChromaticities,
          trc |-> [kind |-> "gamma", num |-> GammaUnit, den |-> f.gamma]]
  ELSE NullSpace

\* C3: for every combination of iCCP, sRGB, gAMA and cHRM chunks the
\* resolved space is: the ICC-derived space if iCCP is present and parses;
\* otherwise Unresolved-as-sRGB if the sRGB flag is present; otherwise, if
\* gAMA is present with gamma g, the descriptor with transfer exponent 1/g
\* and the chromaticities of cHRM, or of sRGB without cHRM; otherwise
\* Unresolved.
C3_SpacePrecedence ==
  HeaderParsed => dec.space = ResolvedSpace(file)

\* the channel layout the negotiator's table gives a colour type
TableLayout(color_type, tRNS) ==
  CASE color_type = PNG_COLOR_TYPE_GRAY -> IF tRNS THEN "Y'A" ELSE "Y'"
    [] color_type = PNG_COLOR_TYPE_GRAY_ALPHA -> "Y'A"
    [] color_type = PNG_COLOR_TYPE_RGB -> IF tRNS THEN "R'G'B'A" ELSE "R'G'B'"
    [] color_type = PNG_COLOR_TYPE_RGB_ALPHA -> "R'G'B'A"
    [] color_type = PNG_COLOR_TYPE_PALETTE ->
         IF tRNS THEN "R'G'B'A" ELSE "R'G'B'"

Channels(model) ==
  CASE model = "Y'" -> 1
    [] model = "Y'A" -> 2
    [] model = "R'G'B'" -> 3
    [] model = "R'G'B'A" -> 4

\* C4: for every colour type and tRNS flag, header inspection and decode
\* select the layout of the table (gray, gray+alpha, rgb, rgb+alpha; palette
\* gets alpha only with tRNS), and the decoder's bytes per pixel is the
\* layout's channel count times the sample size (1 byte, 2 at 16 bit).
C4_ChannelLayout ==
  HeaderParsed
    => /\ dec.format.model = TableLayout(file.color_type, file.tRNS)
       /\ dec.format.type = (IF file.bit_depth = 16 THEN "u16" ELSE "u8")
       /\ op = "import"
            => dec.bpp = Channels(dec.format.model)
                         * (IF dec.format.type = "u16" THEN 2 ELSE 1)

C4_Witness ==
  /\ op = "import"
  /\ pc = "rows"
  /\ file.color_type = PNG_COLOR_TYPE_PALETTE
  /\ file.tRNS
  /\ dec.bpp = 4

\* the four channel layouts of a buffer format
JobLayout(j) ==
  CASE (~j.has_alpha) /\ j.n_components = 1 -> "Y'"
    [] j.has_alpha /\ j.n_components = 2 -> "Y'A"
    [] (~j.has_alpha) /\ j.n_components = 3 -> "R'G'B'"
    [] j.has_alpha /\ j.n_components = 4 -> "R'G'B'A"
    [] OTHER -> "other"

LayoutColorType(layout) ==
  CASE layout = "Y'" -> PNG_COLOR_TYPE_GRAY
    [] layout = "Y'A" -> PNG_COLOR_TYPE_GRAY_ALPHA
    [] layout = "R'G'B'" -> PNG_COLOR_TYPE_RGB
    [] layout = "R'G'B'A" -> PNG_COLOR_TYPE_RGB_ALPHA

\* the stream header an IHDR written by export_png reads back as
WrittenFile(e) ==
  MakeFile(GoodHeader, <<e.color_type, e.bit_depth, FALSE>>, PlainColour,
           e.interlace, e.width, e.height, 0)

\* C5: for the four channel layouts and any requested bit depth d, the IHDR
\* the encoder sets has the layout's colour type and bit depth 16 if d = 16,
\* else 8; header inspection and decode of that IHDR report the same layout,
\* that bit depth and the encoded width and height.
C5_FormatRoundTrip ==
  (op = "save" /\ enc.set /\ JobLayout(job) # "other")
    => LET q == query_header(WrittenFile(enc))
           d == import_header(WrittenFile(enc))
           depth == IF job.bitdepth = 16 THEN 16 ELSE 8
           type == IF depth = 16 THEN "u16" ELSE "u8"
       IN /\ enc.color_type = LayoutColorType(JobLayout(job))
          /\ enc.bit_depth = depth
          /\ q.format.model = JobLayout(job) /\ d.format.model = JobLayout(job)
          /\ q.format.type = type /\ d.format.type = type
          /\ q.bit_depth = depth /\ d.bit_depth = depth
          /\ q.ret_width = job.width /\ d.ret_width = job.width
          /\ q.ret_height = job.height /\ d.ret_height = job.height

C5_Witness ==
  /\ op = "save"
  /\ ret = "ok"
  /\ JobLayout(job) = "Y'A"
  /\ job.bitdepth = 12
  /\ enc.bit_depth = 8

\* pixel (x, y) has been delivered when the row loop stands at (pass, i)
Delivered(x, y) ==
  IF file.interlace_type = PNG_INTERLACE_ADAM7
    THEN Adam7Pass(x, y) < pass \/ (Adam7Pass(x, y) = pass /\ y < i)
    ELSE pass > 0 \/ y < i

\* the image the stream encodes, which is what a non-interlaced decode
\* stores row by row
WholeImage ==
  [y \in 0..(file.h - 1) |-> [k \in 1..file.w |-> ImagePixel(file, k - 1, y)]]

\* C6: the decoder runs 7 passes over an Adam7 stream and 1 pass over a
\* non-interlaced one; while the rows are read, every pixel that an earlier
\* pass (or an earlier row of this pass) delivered still holds the stream's
\* sample in the destination buffer; and after the last row the buffer of an
\* interlaced decode is the image itself, as it is after a non-interlaced
\* decode of the same image.  (Stream reads that succeed.)
C6_Adam7SameAsPlain ==
  (op = "import" /\ pc \in {"rows", "end", "done"} /\ dec.bpp > 0
     /\ ~io_failed)
    => /\ dec.number_of_passes
            = (IF file.interlace_type = PNG_INTERLACE_ADAM7 THEN 7 ELSE 1)
       /\ pc = "rows"
            => \A y \in 0..(file.h - 1), x \in 0..(file.w - 1) :
                 Delivered(x, y) => buffer[y][x + 1] = ImagePixel(file, x, y)
       /\ (pc = "end" \/ ret = "ok")
            => /\ pass = dec.number_of_passes
               /\ buffer = WholeImage

C6_Witness ==
  /\ op = "import"
  /\ ret = "ok"
  /\ ~io_failed
  /\ file.interlace_type = PNG_INTERLACE_ADAM7
  /\ file.w = MaxWidth
  /\ file.h = MaxHeight
  /\ buffer = WholeImage

\* C7: an encode with a CMYK-flagged space never sets an iCCP chunk,
\* whatever the colour type and whether or not the space has profile bytes;
\* an iCCP chunk is set only for a space that is not CMYK and has profile
\* bytes.
C7_NoIccForCmyk ==
  (op = "save" /\ enc.set)
    => /\ job.space.is_cmyk => ~enc.iCCP
       /\ enc.iCCP => ((~job.space.is_cmyk) /\ job.space.icc)

C7_Witness ==
  /\ op = "save"
  /\ ret = "ok"
  /\ job.space.is_cmyk
  /\ job.space.icc
  /\ export_is_rgb(enc.color_type)
  /\ enc.cHRM # <<>>
  /\ ~enc.iCCP

\* C8: a call during which a stream read, write or flush issued by the
\* read_fn / write_fn / flush_fn callbacks failed returns an error.
C8_IoErrorSurfaces ==
  (pc = "done" /\ io_failed) => ret = "fail"

\* C9: every encode with a space that is present and not sRGB, whatever the
\* channel layout, sets cHRM to the space's white point and primaries and
\* sets gAMA to 2.2 for an sRGB or 2.2 curve or a CMYK space, 1.0 for a
\* linear curve of a non-CMYK space, and 2.2 for any other curve.
C9_ChrmAndGamma ==
  (op = "save" /\ enc.set /\ job.space.kind = "other")
    => /\ enc.cHRM = job.space.chrm
       /\ enc.gAMA = (IF job.space.trc \in {"sRGB", "2.2"} \/ job.space.is_cmyk
                        THEN Gamma22
                      ELSE IF job.space.trc = "linear" THEN Gamma10
                      ELSE Gamma22)

\* no usable iCCP, no sRGB flag, no gAMA
Unresolved(f) == (~(f.iCCP /\ f.icc_parses)) /\ (~f.sRGB) /\ ~f.gAMA

\* the resolver returned no descriptor: iCCP present but unusable, or no
\* iCCP and either the sRGB flag or no gAMA
NoDescriptor(f) ==
  IF f.iCCP THEN ~f.icc_parses ELSE (f.sRGB \/ ~f.gAMA)

\* C10 as stated: a full decode installs a gamma correction exactly in the
\* Unresolved case (no usable iCCP, no sRGB flag, no gAMA), and then it is
\* display gamma 2.2 with source gamma 0.45455.
C10_GammaOnlyUnresolved ==
  (op = "import" /\ pc = "rows")
    => /\ dec.gamma.set <=> Unresolved(file)
       /\ dec.gamma.set
            => (dec.gamma.screen = Gamma22 /\ dec.gamma.file = DefaultFileGamma)

\* C10 as amended: a full decode installs a gamma correction exactly when
\* the resolver returned no descriptor (Unresolved, the sRGB flag without
\* iCCP, or an iCCP profile that does not parse); its display gamma is 2.2
\* and its source gamma is the gAMA chunk's value when gAMA is present, else
\* 0.45455.  With a parsed ICC profile or a descriptor built from gAMA no
\* correction is installed.
C10_GammaWhenNoDescriptor ==
  (op = "import" /\ pc = "rows")
    => /\ dec.gamma.set <=> NoDescriptor(file)
       /\ dec.gamma.set
            => /\ dec.gamma.screen = Gamma22
               /\ dec.gamma.file
                    = (IF file.gAMA THEN file.gamma ELSE DefaultFileGamma)
       /\ (dec.space.kind \in {"icc", "chromaticities"}) => ~dec.gamma.set

C10_Witness ==
  /\ op = "import"
  /\ pc = "rows"
  /\ file.sRGB
  /\ ~file.iCCP
  /\ file.gAMA
  /\ dec.gamma.set
  /\ dec.gamma.file = file.gamma

\* how often the log has gegl_buffer_set for row y
SetCount(y) ==
  Cardinality({k \in 1..Len(out) :
                 out[k].ev = "gegl_buffer_set" /\ out[k].y = y})

\* how often the row buffer was allocated
MallocCount ==
  Cardinality({k \in 1..Len(out) : out[k].ev = "g_malloc0"})

\* C11 as stated: in a successful decode every row y of 0..h-1 is handed to
\* the destination buffer exactly once, at (0, y), from the one row buffer,
\* for non-interlaced and Adam7 sources alike.
C11_EachRowOnce ==
  (op = "import" /\ ret = "ok")
    => /\ \A y \in 0..(file.h - 1) : SetCount(y) = 1
       /\ \A k \in 1..Len(out) : out[k].x = 0
       /\ MallocCount = 1

\* C11 as amended: in a successful decode every row y of 0..h-1 is handed
\* to the destination buffer once in each pass, at (0, y), rows in
\* increasing order within a pass, from the one row buffer: exactly once
\* for a non-interlaced source, seven times for an Adam7 source.
C11_EachRowOncePerPass ==
  (op = "import" /\ ret = "ok")
    => LET passes == IF file.interlace_type = PNG_INTERLACE_ADAM7
                       THEN 7 ELSE 1
       IN /\ \A y \in 0..(file.h - 1) : SetCount(y) = passes
          /\ MallocCount = 1
          /\ Len(out) = 1 + passes * file.h
          /\ out[1].ev = "g_malloc0"
          /\ \A k \in 2..Len(out) :
               /\ out[k].ev = "gegl_buffer_set"
               /\ out[k].x = 0
               /\ out[k].y = (k - 2) % file.h

C11_Witness ==
  /\ op = "import"
  /\ ret = "ok"
  /\ file.interlace_type = PNG_INTERLACE_ADAM7
  /\ file.h = MaxHeight
  /\ SetCount(MaxHeight - 1) = 7

\* C12: whenever png_set_bKGD is called, the fields of white it writes were
\* assigned the reference white on the path taken: red = green = blue = 0xff
\* for RGB and RGB+alpha output, gray = 0xff for gray and gray+alpha output,
\* for every colour space; no bKGD is written from an unassigned value.
C12_BkgdAssigned ==
  (op = "save" /\ enc.set)
    => IF export_is_rgb(enc.color_type)
         THEN /\ enc.white.red /\ enc.white.green /\ enc.white.blue
              /\ enc.bKGD = <<255, 255, 255>>
         ELSE /\ enc.white.gray
              /\ enc.bKGD = <<255>>

\* the call log of a complete encode of the job's region
WholeEncode(j) ==
  <<Event("png_write_info", 0, 0)>>
  \o [k \in 1..(2 * j.height) |->
        Event(IF k % 2 = 1 THEN "gegl_buffer_get" ELSE "png_write_rows",
              j.x, j.y + ((k - 1) \div 2))]
  \o <<Event("png_write_end", 0, 0)>>

\* C13: in an encode of a region of height h, IHDR, the colour chunks and
\* bKGD are set and png_write_info is called before any row is fetched;
\* then the rows y = src_y, ..., src_y + h - 1 are fetched in increasing
\* order, each written right after it is fetched and before the next is
\* fetched; then png_write_end is called once, after the last row.  The log
\* is at all times a prefix of that sequence, and all of it on success.
C13_EncodeOrder ==
  op = "save"
    => /\ Len(out) <= Len(WholeEncode(job))
       /\ out = SubSeq(WholeEncode(job), 1, Len(out))
       /\ Len(out) > 0
            => (enc.set /\ enc.width = job.width /\ enc.height = job.height
                /\ enc.bKGD # <<>>)
       /\ ret = "ok" => out = WholeEncode(job)

C13_Witness ==
  /\ op = "save"
  /\ ret = "ok"
  /\ job.y = 1
  /\ job.height = MaxSaveHeight
  /\ out[Len(out)].ev = "png_write_end"
  /\ out[Len(out) - 1] = Event("png_write_rows", job.x, MaxSaveHeight)

====
